---- MODULE Spec2Model ----
(***************************************************************************)
(* Model of the EZO RTD response parsers of src/src/lib.rs.                *)
(*                                                                         *)
(* A response is a sequence of bytes (0..255).  The three parsers          *)
(*   TemperatureScaleResponse::parse                                       *)
(*   DataLoggerStorageIntervalResponse::parse                              *)
(*   TemperatureResponse::parse                                            *)
(* are pure functions of the response (and, for readings, of the scale).   *)
(* They are modelled as operators that follow the code step by step,       *)
(* including the standard-library conversions the code calls               *)
(* (CStr::from_bytes_with_nul, CStr::to_str, str::starts_with, str::get,   *)
(* u32::from_str, f64::from_str, error_chain's chain_err).                 *)
(*                                                                         *)
(* The state machine is a caller that holds one response buffer and calls  *)
(* the parsers on it any number of times, in any order; `first` remembers  *)
(* the first call made and `last` the most recent later call.              *)
(***************************************************************************)
EXTENDS Integers, Sequences, FiniteSets, TLC

VARIABLES buf, first, last

vars == <<buf, first, last>>

(***************************************************************************)
(* Bounds of the model.                                                    *)
(***************************************************************************)
\* Number of tokens placed between the head and the tail of a response.
MaxTokens == 1

(***************************************************************************)
(* Byte-level helpers.                                                     *)
(***************************************************************************)
RECURSIVE FirstNul(_, _)
\* memchr(0, bytes): index (1-based) of the first NUL at or after i, 0 if none.
FirstNul(bytes, i) ==
    IF i > Len(bytes) THEN 0
    ELSE IF bytes[i] = 0 THEN i
    ELSE FirstNul(bytes, i + 1)

\* CStr::from_bytes_with_nul mutated: stops at the first NUL wherever it is
\* (the behaviour of from_bytes_until_nul).
CStrUntilNul(bytes) ==
    LET p == FirstNul(bytes, 1) IN
    IF p = 0 THEN [ok |-> FALSE, bytes |-> <<>>]
    ELSE [ok |-> TRUE, bytes |-> SubSeq(bytes, 1, p - 1)]

\* CStr::from_bytes_with_nul: the first NUL must exist and be the last byte
\* (otherwise FromBytesWithNulError: interior nul / not nul terminated).
\* On success the C string's bytes without the terminator.
CStrFromBytesWithNul(bytes) ==
    LET p == FirstNul(bytes, 1) IN
    IF p = 0 THEN [ok |-> FALSE, bytes |-> <<>>]
    ELSE IF p # Len(bytes) THEN [ok |-> FALSE, bytes |-> <<>>]
    ELSE [ok |-> TRUE, bytes |-> SubSeq(bytes, 1, p - 1)]

\* A UTF-8 continuation byte, 10xxxxxx.
IsCont(b) == b >= 128 /\ b <= 191

RECURSIVE Utf8Valid(_, _)
\* core::str::from_utf8 (run_utf8_validation) from byte i on: well-formed
\* UTF-8 per the Unicode table (no overlong forms, no surrogates, at most
\* U+10FFFF).
Utf8Valid(bytes, i) ==
    LET n == Len(bytes)
        b == bytes[i]
        Cont(k) == i + k <= n /\ IsCont(bytes[i + k])
        In(k, lo, hi) == i + k <= n /\ bytes[i + k] >= lo /\ bytes[i + k] <= hi
    IN
    IF i > n THEN TRUE
    ELSE IF b < 128 THEN Utf8Valid(bytes, i + 1)
    ELSE IF b >= 194 /\ b <= 223 THEN Cont(1) /\ Utf8Valid(bytes, i + 2)
    ELSE IF b = 224 THEN In(1, 160, 191) /\ Cont(2) /\ Utf8Valid(bytes, i + 3)
    ELSE IF (b >= 225 /\ b <= 236) \/ b = 238 \/ b = 239
         THEN Cont(1) /\ Cont(2) /\ Utf8Valid(bytes, i + 3)
    ELSE IF b = 237 THEN In(1, 128, 159) /\ Cont(2) /\ Utf8Valid(bytes, i + 3)
    ELSE IF b = 240
         THEN In(1, 144, 191) /\ Cont(2) /\ Cont(3) /\ Utf8Valid(bytes, i + 4)
    ELSE IF b >= 241 /\ b <= 243
         THEN Cont(1) /\ Cont(2) /\ Cont(3) /\ Utf8Valid(bytes, i + 4)
    ELSE IF b = 244
         THEN In(1, 128, 143) /\ Cont(2) /\ Cont(3) /\ Utf8Valid(bytes, i + 4)
    ELSE FALSE

\* CStr::to_str mutated: the empty string is refused as well.
ToStrNonEmpty(bytes) == bytes # <<>> /\ Utf8Valid(bytes, 1)

\* CStr::to_str: succeeds iff the bytes are valid UTF-8.
ToStr(bytes) == Utf8Valid(bytes, 1)

\* error_chain's chain_err mutated: the inner error's kind reaches the caller.
ChainErrInner(inner, kind) == inner

\* error_chain's ResultExt::chain_err (|| kind): the error returned has kind
\* `kind`; the inner error is only kept as its cause.
ChainErr(inner, kind) == kind

NoVal == [type |-> "none"]

Err(kind) == [status |-> "Err", err |-> kind, val |-> NoVal]

Ok(v) == [status |-> "Ok", err |-> "none", val |-> v]

\* A panic (unwrap on None): the call returns nothing.
Panic == [status |-> "Panic", err |-> "none", val |-> NoVal]

\* str_from_response: nul-terminated and valid UTF-8, else MalformedResponse.
\* On success val.text is the text (as bytes) without the terminator.
str_from_response(response) ==
    LET terminated == CStrFromBytesWithNul(response) IN
    IF ~terminated.ok
    THEN Err(ChainErr("FromBytesWithNulError", "MalformedResponse"))
    ELSE IF ~ToStr(terminated.bytes)
    THEN Err(ChainErr("Utf8Error", "MalformedResponse"))
    ELSE Ok([type |-> "str", text |-> terminated.bytes])

(***************************************************************************)
(* TemperatureScaleResponse::parse                                         *)
(***************************************************************************)
\* The match of lines 34-39 mutated: the scale letter is compared without
\* regard to case.
MatchScaleAnyCase(r) ==
    IF r = <<63, 83, 44, 99>> \/ r = <<63, 83, 44, 67>> THEN "Celsius"
    ELSE IF r = <<63, 83, 44, 107>> \/ r = <<63, 83, 44, 75>> THEN "Kelvin"
    ELSE IF r = <<63, 83, 44, 102>> \/ r = <<63, 83, 44, 70>> THEN "Fahrenheit"
    ELSE "none"

\* The match of lines 34-39: "?S,c", "?S,k", "?S,f" compared as whole
\* strings; "none" stands for the wildcard arm.
MatchScale(r) ==
    IF r = <<63, 83, 44, 99>> THEN "Celsius"
    ELSE IF r = <<63, 83, 44, 107>> THEN "Kelvin"
    ELSE IF r = <<63, 83, 44, 102>> THEN "Fahrenheit"
    ELSE "none"

ParseTemperatureScale(response) ==
    LET r == str_from_response(response) IN
    IF r.status # "Ok" THEN r
    ELSE LET m == MatchScale(r.val.text) IN
         IF m = "none" THEN Err("ResponseParse")
         ELSE Ok([type |-> "TemperatureScaleResponse", scale |-> m])

(***************************************************************************)
(* u32::from_str.  A u32 is kept as two decimal limbs <<hi, lo>> with      *)
(* value hi * 100000 + lo, so that 2^32 - 1 and the products that exceed   *)
(* it are computed exactly.                                                *)
(***************************************************************************)
\* u32::max_value() = 4294967295.
U32Max == <<42949, 67295>>

LimbLeq(a, b) == a[1] < b[1] \/ (a[1] = b[1] /\ a[2] <= b[2])

\* a - b on limbs, for a >= b.
LimbSub(a, b) ==
    IF a[2] >= b[2] THEN <<a[1] - b[1], a[2] - b[2]>>
    ELSE <<a[1] - b[1] - 1, a[2] + 100000 - b[2]>>

RECURSIVE Wrap32(_)
\* v modulo 2^32 (2^32 = 4294967296).
Wrap32(v) == IF LimbLeq(v, U32Max) THEN v ELSE Wrap32(LimbSub(v, <<42949, 67296>>))

\* The exact products and sums, before the range check.
LimbMul10(v) == <<v[1] * 10 + ((v[2] * 10) \div 100000), (v[2] * 10) % 100000>>

LimbAdd(v, x) == <<v[1] + ((v[2] + x) \div 100000), (v[2] + x) % 100000>>

\* u32::checked_mul(result, 10): None on overflow.
CheckedMul10(v) ==
    LET p == LimbMul10(v) IN
    IF LimbLeq(p, U32Max) THEN [some |-> TRUE, v |-> p]
    ELSE [some |-> FALSE, v |-> <<0, 0>>]

\* checked_add mutated into wrapping_add: the sum modulo 2^32.
WrappingAdd(v, x) == [some |-> TRUE, v |-> Wrap32(LimbAdd(v, x))]

\* u32::checked_add(result, x): None on overflow.
CheckedAdd(v, x) ==
    LET p == LimbAdd(v, x) IN
    IF LimbLeq(p, U32Max) THEN [some |-> TRUE, v |-> p]
    ELSE [some |-> FALSE, v |-> <<0, 0>>]

\* char::to_digit(10) on a byte.
IsDigit(b) == b >= 48 /\ b <= 57

IntErr(kind) == [ok |-> FALSE, kind |-> kind, v |-> <<0, 0>>]

RECURSIVE U32Digits(_, _, _)
\* The digit loop of from_str_radix for a non-negative number: for each
\* byte, to_digit, then checked_mul by the radix, then checked_add.
U32Digits(digits, i, result) ==
    IF i > Len(digits) THEN [ok |-> TRUE, kind |-> "none", v |-> result]
    ELSE IF ~IsDigit(digits[i]) THEN IntErr("InvalidDigit")
    ELSE LET m == CheckedMul10(result) IN
         IF ~m.some THEN IntErr("Overflow")
         ELSE LET a == CheckedAdd(m.v, digits[i] - 48) IN
              IF ~a.some THEN IntErr("Overflow")
              ELSE U32Digits(digits, i + 1, a.v)

\* u32::from_str = from_str_radix(src, 10): empty input is an error; one
\* leading '+' is skipped ('-' is skipped only for signed types, so for u32
\* it reaches the digit loop and is an invalid digit); no digits left is an
\* error.
U32FromStr(src) ==
    IF src = <<>> THEN IntErr("Empty")
    ELSE LET digits == IF src[1] = 43 THEN Tail(src) ELSE src IN
         IF digits = <<>> THEN IntErr("Empty")
         ELSE U32Digits(digits, 1, <<0, 0>>)

(***************************************************************************)
(* DataLoggerStorageIntervalResponse::parse                                *)
(***************************************************************************)
\* starts_with mutated: only the first two bytes of the pattern are compared.
StartsWithShort(r, pat) ==
    Len(r) >= 2 /\ SubSeq(r, 1, 2) = SubSeq(pat, 1, 2)

\* str::starts_with(pat): the bytes of pat are a prefix of the bytes of r.
StartsWith(r, pat) ==
    Len(r) >= Len(pat) /\ SubSeq(r, 1, Len(pat)) = pat

\* str::is_char_boundary(index), index counted from 0.
IsCharBoundary(r, index) ==
    IF index = 0 \/ index = Len(r) THEN TRUE
    ELSE IF index > Len(r) THEN FALSE
    ELSE ~IsCont(r[index + 1])

\* str::get(from..): None unless `from` is a character boundary of r.
StrGetFrom(r, from) ==
    IF IsCharBoundary(r, from)
    THEN [some |-> TRUE, s |-> SubSeq(r, from + 1, Len(r))]
    ELSE [some |-> FALSE, s |-> <<>>]

ParseDataLoggerStorageInterval(response) ==
    LET r == str_from_response(response) IN
    IF r.status # "Ok" THEN r
    ELSE IF StartsWith(r.val.text, <<63, 68, 44>>)
    THEN LET num_str == StrGetFrom(r.val.text, 3) IN
         IF ~num_str.some THEN Panic
         ELSE LET num == U32FromStr(num_str.s) IN
              IF ~num.ok THEN Err(ChainErr(num.kind, "ResponseParse"))
              ELSE Ok([type |-> "DataLoggerStorageIntervalResponse",
                       secs |-> num.v])
    ELSE Err("ResponseParse")

(***************************************************************************)
(* f64::from_str (core::num::dec2flt).  A parsed f64 is kept as            *)
(*   [class, neg, digits, exp]                                             *)
(* class "finite": the value (-1)^neg * 0.d1d2...dn * 10^exp, digits       *)
(* without leading or trailing zeros (zero: no digits, exp 0); class "inf" *)
(* and "nan" carry no digits.  Decimal literals of at most 15 significant  *)
(* digits and a decimal exponent within the f64 range denote distinct f64  *)
(* values exactly when these normal forms differ, which covers every       *)
(* literal the model's responses hold.                                     *)
(***************************************************************************)
RECURSIVE CountDigits(_, _)
\* eat_digits: the length of the longest prefix of s[i..] made of '0'..'9'.
CountDigits(s, i) ==
    IF i > Len(s) THEN 0
    ELSE IF IsDigit(s[i]) THEN 1 + CountDigits(s, i + 1)
    ELSE 0

\* s from (1-based) position i to the end.
From(s, i) == SubSeq(s, i, Len(s))

RECURSIVE StripLeadingZeros(_)
StripLeadingZeros(ds) ==
    IF ds # <<>> /\ Head(ds) = 48 THEN StripLeadingZeros(Tail(ds)) ELSE ds

RECURSIVE StripTrailingZeros(_)
StripTrailingZeros(ds) ==
    IF ds # <<>> /\ ds[Len(ds)] = 48
    THEN StripTrailingZeros(SubSeq(ds, 1, Len(ds) - 1)) ELSE ds

RECURSIVE DigitsToInt(_, _)
\* The exponent's digits as a number (left to right, base 10).
DigitsToInt(ds, acc) ==
    IF ds = <<>> THEN acc ELSE DigitsToInt(Tail(ds), acc * 10 + (Head(ds) - 48))

Invalid == [valid |-> FALSE, integral |-> <<>>, fractional |-> <<>>, exp |-> 0]

Decimal(integral, fractional, exp) ==
    [valid |-> TRUE, integral |-> integral, fractional |-> fractional, exp |-> exp]

\* dec2flt::parse::parse_exp: optional '-' or '+', then digits up to the end
\* of the text, at least one.
ParseExp(integral, fractional, rest) ==
    LET negexp == rest # <<>> /\ rest[1] = 45
        signed == rest # <<>> /\ (rest[1] = 45 \/ rest[1] = 43)
        r2     == IF signed THEN Tail(rest) ELSE rest
        n      == CountDigits(r2, 1)
    IN
    IF n # Len(r2) THEN Invalid
    ELSE IF n = 0 THEN Invalid
    ELSE LET e == DigitsToInt(StripLeadingZeros(r2), 0) IN
         Decimal(integral, fractional, IF negexp THEN 0 - e ELSE e)

\* dec2flt::parse::parse_decimal: digits [ '.' digits ] [ ('e'|'E') exp ],
\* with at least one digit before or after the point and at least one digit
\* before an 'e' that follows the integral part directly.
ParseDecimal(s) ==
    IF s = <<>> THEN Invalid
    ELSE
    LET ni       == CountDigits(s, 1)
        integral == SubSeq(s, 1, ni)
        s1       == From(s, ni + 1)
    IN
    IF s1 = <<>> THEN Decimal(integral, <<>>, 0)
    ELSE IF s1[1] = 101 \/ s1[1] = 69
    THEN IF integral = <<>> THEN Invalid
         ELSE ParseExp(integral, <<>>, Tail(s1))
    ELSE IF s1[1] = 46
    THEN LET nf         == CountDigits(s1, 2)
             fractional == SubSeq(s1, 2, nf + 1)
             s2         == From(s1, nf + 2)
         IN
         IF integral = <<>> /\ fractional = <<>> THEN Invalid
         ELSE IF s2 = <<>> THEN Decimal(integral, fractional, 0)
         ELSE IF s2[1] = 101 \/ s2[1] = 69
         THEN ParseExp(integral, fractional, Tail(s2))
         ELSE Invalid
    ELSE Invalid

\* dec2flt::convert: the f64 nearest to the decimal, here its normal form.
Convert(d, neg) ==
    LET all == d.integral \o d.fractional
        nz  == StripLeadingZeros(all)
        ds  == StripTrailingZeros(nz)
        tz  == Len(nz) - Len(ds)
    IN
    IF ds = <<>> THEN [class |-> "finite", neg |-> neg, digits |-> <<>>, exp |-> 0]
    ELSE [class |-> "finite", neg |-> neg, digits |-> ds,
          exp |-> d.exp - Len(d.fractional) + tz + Len(ds)]

FloatErr == [ok |-> FALSE, v |-> [class |-> "none"]]

\* f64::from_str = dec2flt: empty text is an error; extract_sign takes one
\* leading '+' or '-'; the rest is a decimal, or exactly "inf" or "NaN".
F64FromStr(s) ==
    IF s = <<>> THEN FloatErr
    ELSE
    LET neg    == s[1] = 45
        signed == s[1] = 45 \/ s[1] = 43
        rest   == IF signed THEN Tail(s) ELSE s
        d      == ParseDecimal(rest)
    IN
    IF d.valid THEN [ok |-> TRUE, v |-> Convert(d, neg)]
    ELSE IF rest = <<105, 110, 102>>
    THEN [ok |-> TRUE, v |-> [class |-> "inf", neg |-> neg, digits |-> <<>>, exp |-> 0]]
    ELSE IF rest = <<78, 97, 78>>
    THEN [ok |-> TRUE, v |-> [class |-> "nan", neg |-> neg, digits |-> <<>>, exp |-> 0]]
    ELSE FloatErr

\* f64's PartialEq (IEEE 754 ==): NaN equals nothing, -0.0 equals 0.0.
F64Eq(a, b) ==
    IF a.class = "nan" \/ b.class = "nan" THEN FALSE
    ELSE IF a.class = "finite" /\ b.class = "finite"
            /\ a.digits = <<>> /\ b.digits = <<>> THEN TRUE
    ELSE a = b

(***************************************************************************)
(* Temperature::new and TemperatureResponse::parse                         *)
(***************************************************************************)
TemperatureScale == {"Celsius", "Kelvin", "Fahrenheit"}

\* Temperature::new mutated: a Kelvin reading is tagged Celsius.
TemperatureNewSwapped(scale, value) ==
    [variant |-> IF scale = "Kelvin" THEN "Celsius" ELSE scale, value |-> value]

\* Temperature::new: the variant of the scale, holding the value.
TemperatureNew(scale, value) ==
    IF scale = "Celsius" THEN [variant |-> "Celsius", value |-> value]
    ELSE IF scale = "Kelvin" THEN [variant |-> "Kelvin", value |-> value]
    ELSE [variant |-> "Fahrenheit", value |-> value]

ParseTemperature(response, scale) ==
    LET r == str_from_response(response) IN
    IF r.status # "Ok" THEN r
    ELSE LET val == F64FromStr(r.val.text) IN
         IF ~val.ok THEN Err(ChainErr("ParseFloatError", "ResponseParse"))
         ELSE Ok([type |-> "TemperatureResponse",
                  temp |-> TemperatureNew(scale, val.v)])

\* #[derive(PartialEq)] on Temperature: same variant and equal f64.
TemperatureEq(a, b) == a.variant = b.variant /\ F64Eq(a.value, b.value)

\* == on the Ok values of two calls of the same parser (the derived
\* PartialEq of the three response types).
ResponseEq(a, b) ==
    IF a.type = "TemperatureResponse" THEN TemperatureEq(a.temp, b.temp)
    ELSE a = b

(***************************************************************************)
(* The responses the caller may hold: a head, at most MaxTokens tokens and *)
(* a tail, concatenated.                                                   *)
(***************************************************************************)
\* "", " ", "?S,", "?S,c", "?D,", "?D,1", "?D,+", "?D,-", "?D,429496729",
\* "?D", "?d,", "-", "1", "1.", "1e", "1234."
Heads ==
    { <<>>, <<32>>, <<63, 83, 44>>, <<63, 83, 44, 99>>, <<63, 68, 44>>,
      <<63, 68, 44, 49>>, <<63, 68, 44, 43>>, <<63, 68, 44, 45>>,
      <<63, 68, 44, 52, 50, 57, 52, 57, 54, 55, 50, 57>>,
      <<63, 68>>, <<63, 100, 44>>,
      <<45>>, <<49>>, <<49, 46>>, <<49, 101>>, <<49, 50, 51, 52, 46>> }

\* "c", "k", "f", "C", "0", "1", "5", "6", "-", "+", ".", "x", " ",
\* "inf", "NaN", "?S,k", U+00E9 (two bytes), a lone lead byte 0xC3, 0xFF,
\* 0x01
Tokens ==
    { <<99>>, <<107>>, <<102>>, <<67>>, <<48>>, <<49>>, <<53>>, <<54>>,
      <<45>>, <<43>>, <<46>>, <<120>>, <<32>>,
      <<105, 110, 102>>, <<78, 97, 78>>, <<63, 83, 44, 107>>,
      <<195, 169>>, <<195>>, <<255>>, <<1>> }

\* no terminator, "\0", "\0\0", "\0x"
Tails == { <<>>, <<0>>, <<0, 0>>, <<0, 120>> }

RECURSIVE TokenSeqs(_)
TokenSeqs(k) ==
    IF k = 0 THEN { <<>> }
    ELSE LET S == TokenSeqs(k - 1) IN S \cup { m \o t : m \in S, t \in Tokens }

Buffers == { h \o m \o t : h \in Heads, m \in TokenSeqs(MaxTokens), t \in Tails }

(***************************************************************************)
(* The caller.                                                             *)
(***************************************************************************)
NoCall == [op |-> "none", scale |-> "none",
           res |-> [status |-> "none", err |-> "none", val |-> NoVal]]

Call(op, scale, res) == [op |-> op, scale |-> scale, res |-> res]

Init ==
    /\ buf \in Buffers
    /\ first = NoCall
    /\ last = NoCall

\* The first call made is kept in `first`, every later one replaces `last`.
Record(c) ==
    /\ IF first = NoCall
       THEN first' = c /\ last' = last
       ELSE first' = first /\ last' = c
    /\ buf' = buf

CallParseTemperatureScale ==
    Record(Call("TemperatureScaleResponse", "none", ParseTemperatureScale(buf)))

CallParseDataLoggerStorageInterval ==
    Record(Call("DataLoggerStorageIntervalResponse", "none",
                ParseDataLoggerStorageInterval(buf)))

CallParseTemperature ==
    \E scale \in TemperatureScale :
        Record(Call("TemperatureResponse", scale, ParseTemperature(buf, scale)))

Next ==
    \/ CallParseTemperatureScale
    \/ CallParseDataLoggerStorageInterval
    \/ CallParseTemperature

Spec == Init /\ [][Next]_vars

\* The calls made so far that the state remembers.
Calls == { first, last } \ { NoCall }

(***************************************************************************)
(* Vocabulary of the properties, stated on the bytes of the buffer.        *)
(***************************************************************************)
Malformed == Err("MalformedResponse")

ParseFailed == Err("ResponseParse")

\* Exactly one NUL byte, and it is the last byte.
WellTerminated(b) ==
    /\ Len(b) > 0
    /\ b[Len(b)] = 0
    /\ \A i \in 1..(Len(b) - 1) : b[i] # 0

\* The bytes before the last byte.
TextOf(b) == SubSeq(b, 1, Len(b) - 1)

\* Length of the UTF-8 sequence a lead byte announces, 0 for a byte that
\* cannot start a character.
SeqLen(x) ==
    IF x < 128 THEN 1
    ELSE IF x >= 194 /\ x <= 223 THEN 2
    ELSE IF x >= 224 /\ x <= 239 THEN 3
    ELSE IF x >= 240 /\ x <= 244 THEN 4
    ELSE 0

\* Well-formed UTF-8, stated position by position: a byte is a continuation
\* byte exactly when an earlier lead byte's sequence covers it, every other
\* byte is a lead whose sequence fits in the text, and the second byte of
\* a sequence avoids overlong forms, surrogates and values above U+10FFFF.
ValidText(t) ==
    \A i \in 1..Len(t) :
        LET covered == \E j \in 1..(i - 1) :
                          ~(t[j] >= 128 /\ t[j] <= 191) /\ SeqLen(t[j]) > i - j
        IN
        IF t[i] >= 128 /\ t[i] <= 191 THEN covered
        ELSE /\ ~covered
             /\ SeqLen(t[i]) > 0
             /\ i + SeqLen(t[i]) - 1 <= Len(t)
             /\ t[i] = 224 => t[i + 1] >= 160
             /\ t[i] = 237 => t[i + 1] <= 159
             /\ t[i] = 240 => t[i + 1] >= 144
             /\ t[i] = 244 => t[i + 1] <= 143

\* Valid UTF-8 text followed by a single trailing NUL.
WellFramed(b) == WellTerminated(b) /\ ValidText(TextOf(b))

AllDigits(ds) == \A i \in 1..Len(ds) : ds[i] \in 48..57

\* A digit string without its leading zeros.
Significant(ds) ==
    LET nz == { i \in 1..Len(ds) : ds[i] # 48 } IN
    IF nz = {} THEN <<>>
    ELSE SubSeq(ds, CHOOSE i \in nz : \A j \in nz : i <= j, Len(ds))

\* x <= y for digit strings of the same length.
DigitsLeq(x, y) ==
    \/ x = y
    \/ \E i \in 1..Len(x) : x[i] < y[i] /\ \A j \in 1..(i - 1) : x[j] = y[j]

\* The number written by the digits is at most 4294967295.
FitsU32(ds) ==
    LET z == Significant(ds) IN
    \/ Len(z) < 10
    \/ Len(z) = 10 /\ DigitsLeq(z, <<52, 50, 57, 52, 57, 54, 55, 50, 57, 53>>)

RECURSIVE NatDigits(_)
\* The decimal digits of a number below 100000, without leading zeros.
NatDigits(n) ==
    IF n = 0 THEN <<>> ELSE Append(NatDigits(n \div 10), 48 + (n % 10))

\* The decimal digits of the interval <<hi, lo>>, without leading zeros.
SecsDigits(v) ==
    IF v[1] = 0 THEN NatDigits(v[2])
    ELSE LET lo == NatDigits(v[2]) IN
         NatDigits(v[1]) \o [i \in 1..(5 - Len(lo)) |-> 48] \o lo

IntervalOk(c) ==
    /\ c.res.status = "Ok"
    /\ c.res.val.type = "DataLoggerStorageIntervalResponse"

(***************************************************************************)
(* C1: a buffer that does not have exactly one NUL, as its last byte,      *)
(* makes every parser fail with MalformedResponse, whatever the bytes      *)
(* before the first NUL are.                                               *)
(***************************************************************************)
C1_FramingBeforeGrammar ==
    \A c \in Calls : ~WellTerminated(buf) => c.res = Malformed

\* "?S,c\0\0" given to the scale parser.
C1_Witness ==
    /\ buf = <<63, 83, 44, 99, 0, 0>>
    /\ \E c \in Calls : c.op = "TemperatureScaleResponse" /\ c.res = Malformed

(***************************************************************************)
(* C2: on a well-framed buffer the scale parser returns Celsius, Kelvin,   *)
(* Fahrenheit exactly for the texts "?S,c", "?S,k", "?S,f" and fails with  *)
(* ResponseParse for every other text.                                     *)
(***************************************************************************)
ScaleOk(scale) == Ok([type |-> "TemperatureScaleResponse", scale |-> scale])

C2_ScaleExactLiteral ==
    \A c \in Calls :
        (c.op = "TemperatureScaleResponse" /\ WellFramed(buf)) =>
            LET t == TextOf(buf) IN
            /\ c.res = ScaleOk("Celsius") <=> t = <<63, 83, 44, 99>>
            /\ c.res = ScaleOk("Kelvin") <=> t = <<63, 83, 44, 107>>
            /\ c.res = ScaleOk("Fahrenheit") <=> t = <<63, 83, 44, 102>>
            /\ t \notin { <<63, 83, 44, 99>>, <<63, 83, 44, 107>>,
                          <<63, 83, 44, 102>> } => c.res = ParseFailed

\* "?S,C\0" (upper case) is refused.
C2_Witness ==
    /\ buf = <<63, 83, 44, 67, 0>>
    /\ \E c \in Calls : c.op = "TemperatureScaleResponse" /\ c.res = ParseFailed

(***************************************************************************)
(* C3 as stated: the empty buffer, the buffer holding only a NUL, a buffer *)
(* whose last byte is not NUL and a buffer with a byte outside valid text  *)
(* encoding (the single byte 0x01) all fail with MalformedResponse, for    *)
(* every parser.                                                           *)
(***************************************************************************)
C3_AsStated ==
    \A c \in Calls :
        ( \/ buf = <<>>
          \/ buf = <<0>>
          \/ (buf # <<>> /\ buf[Len(buf)] # 0)
          \/ buf = <<1>>
          \/ (WellTerminated(buf) /\ ~ValidText(TextOf(buf))) )
        => c.res = Malformed

(***************************************************************************)
(* C3 amended: the empty buffer, a buffer whose last byte is not NUL       *)
(* (the single byte 0x01 among them) and a NUL-terminated buffer whose     *)
(* text is not valid UTF-8 fail with MalformedResponse for every parser;   *)
(* the buffer holding only a NUL is well framed with empty text and fails  *)
(* with ResponseParse for every parser.                                    *)
(***************************************************************************)
C3_Amended ==
    \A c \in Calls :
        /\ ( \/ buf = <<>>
             \/ (buf # <<>> /\ buf[Len(buf)] # 0)
             \/ (WellTerminated(buf) /\ ~ValidText(TextOf(buf))) )
           => c.res = Malformed
        /\ buf = <<0>> => c.res = ParseFailed

\* All three parsers have been called on "\0" (two of them remembered).
C3_Witness ==
    /\ buf = <<0>>
    /\ first.op = "TemperatureResponse" /\ first.res = ParseFailed
    /\ last.op = "DataLoggerStorageIntervalResponse" /\ last.res = ParseFailed

(***************************************************************************)
(* C4 as stated: on a well-framed buffer the interval parser succeeds iff  *)
(* the text is "?D," followed by a non-empty string of the digits 0-9      *)
(* whose value fits in 32 bits, the result is that value, and every other  *)
(* text (a leading '+' among them) fails with ResponseParse.               *)
(***************************************************************************)
C4_AsStated ==
    \A c \in Calls :
        (c.op = "DataLoggerStorageIntervalResponse" /\ WellFramed(buf)) =>
            LET t    == TextOf(buf)
                ds   == SubSeq(t, 4, Len(t))
                good == /\ Len(t) > 3
                        /\ SubSeq(t, 1, 3) = <<63, 68, 44>>
                        /\ AllDigits(ds)
                        /\ FitsU32(ds)
            IN
            /\ IntervalOk(c) <=> good
            /\ good => SecsDigits(c.res.val.secs) = Significant(ds)
            /\ ~good => c.res = ParseFailed

(***************************************************************************)
(* C5: for a well-framed text "?D,<digits>" the interval parser returns    *)
(* the digits' value when it is at most 4294967295 and fails with          *)
(* ResponseParse when it is larger; every interval returned lies in        *)
(* 0..4294967295.                                                          *)
(***************************************************************************)
C5_NoWrapNoTruncate ==
    \A c \in Calls :
        c.op = "DataLoggerStorageIntervalResponse" =>
            /\ IntervalOk(c) =>
                   LET v == c.res.val.secs IN
                   /\ v[1] >= 0 /\ v[2] >= 0 /\ v[2] < 100000
                   /\ v[1] < 42949 \/ (v[1] = 42949 /\ v[2] <= 67295)
            /\ ( /\ WellFramed(buf)
                 /\ Len(buf) > 4
                 /\ SubSeq(buf, 1, 3) = <<63, 68, 44>>
                 /\ AllDigits(SubSeq(buf, 4, Len(buf) - 1)) )
               => LET ds == SubSeq(buf, 4, Len(buf) - 1) IN
                  IF FitsU32(ds)
                  THEN IntervalOk(c) /\ SecsDigits(c.res.val.secs) = Significant(ds)
                  ELSE c.res = ParseFailed

\* "?D,4294967295\0" is accepted with its value, 2^32 - 1.
C5_Witness ==
    /\ buf = <<63, 68, 44, 52, 50, 57, 52, 57, 54, 55, 50, 57, 53, 0>>
    /\ \E c \in Calls : IntervalOk(c) /\ c.res.val.secs = <<42949, 67295>>

\* "?D,4294967296\0" is refused.
C5_WitnessOverflow ==
    /\ buf = <<63, 68, 44, 52, 50, 57, 52, 57, 54, 55, 50, 57, 54, 0>>
    /\ \E c \in Calls :
           c.op = "DataLoggerStorageIntervalResponse" /\ c.res = ParseFailed

(***************************************************************************)
(* C6: two readings of the same buffer under any two scales succeed or     *)
(* fail together, fail with the same error kind, and on success each       *)
(* Temperature carries the variant of the scale supplied to its call and   *)
(* both carry the same f64; nothing is rejected for being implausible.     *)
(***************************************************************************)
TempOk(c) ==
    /\ c.res.status = "Ok"
    /\ c.res.val.type = "TemperatureResponse"

C6_ScaleIsOnlyATag ==
    /\ \A c \in Calls :
           (c.op = "TemperatureResponse" /\ c.res.status = "Ok") =>
               /\ TempOk(c)
               /\ c.res.val.temp.variant = c.scale
    /\ (first.op = "TemperatureResponse" /\ last.op = "TemperatureResponse") =>
           /\ first.res.status = last.res.status
           /\ first.res.err = last.res.err
           /\ first.res.status = "Ok" =>
                  first.res.val.temp.value = last.res.val.temp.value

\* "-1\0" read as Kelvin and then as Celsius: Kelvin(-1.0) and Celsius(-1.0).
C6_Witness ==
    /\ buf = <<45, 49, 0>>
    /\ first.scale = "Kelvin" /\ TempOk(first)
    /\ first.res.val.temp.variant = "Kelvin"
    /\ first.res.val.temp.value.neg
    /\ first.res.val.temp.value.digits = <<49>>
    /\ last.scale = "Celsius" /\ TempOk(last)
    /\ last.res.val.temp.variant = "Celsius"

(***************************************************************************)
(* C7 as stated: on a well-framed buffer the reading parser succeeds only  *)
(* when the whole text is an optional '-', digits with an optional         *)
(* fractional part, and an optional exponent; every other text fails with  *)
(* ResponseParse.  (A point with digits on one side only is counted as     *)
(* having the stated shape.)                                               *)
(***************************************************************************)
SomeDigits(x) == x # <<>> /\ AllDigits(x)

Mantissa(m) ==
    \/ SomeDigits(m)
    \/ \E k \in 1..Len(m) :
           /\ m[k] = 46
           /\ AllDigits(SubSeq(m, 1, k - 1))
           /\ AllDigits(SubSeq(m, k + 1, Len(m)))
           /\ Len(m) > 1

Exponent(e) ==
    \/ SomeDigits(e)
    \/ e # <<>> /\ e[1] \in {43, 45} /\ SomeDigits(Tail(e))

DecimalLiteral(t) ==
    LET u == IF t # <<>> /\ t[1] = 45 THEN Tail(t) ELSE t IN
    \/ Mantissa(u)
    \/ \E k \in 1..Len(u) :
           /\ u[k] \in {101, 69}
           /\ Mantissa(SubSeq(u, 1, k - 1))
           /\ Exponent(SubSeq(u, k + 1, Len(u)))

C7_AsStated ==
    \A c \in Calls :
        (c.op = "TemperatureResponse" /\ WellFramed(buf)) =>
            /\ c.res.status = "Ok" => DecimalLiteral(TextOf(buf))
            /\ ~DecimalLiteral(TextOf(buf)) => c.res = ParseFailed

(***************************************************************************)
(* C8 as stated: a call repeated on the same buffer (and scale), after any *)
(* other calls, has the same outcome: a success again, with a result equal *)
(* under the derived ==, or a failure again, of the same kind.             *)
(***************************************************************************)
C8_AsStated ==
    (first.op # "none" /\ last.op = first.op /\ last.scale = first.scale) =>
        /\ last.res.status = first.res.status
        /\ last.res.err = first.res.err
        /\ first.res.status = "Ok" => ResponseEq(first.res.val, last.res.val)

(***************************************************************************)
(* C9: every call ends in exactly one of success, MalformedResponse and    *)
(* ResponseParse; a well-framed buffer never gives MalformedResponse, a    *)
(* buffer that violates framing never gives ResponseParse, and a failed    *)
(* numeric conversion is reported as ResponseParse.                        *)
(***************************************************************************)
C9_ErrorKindsByStage ==
    \A c \in Calls :
        /\ \/ c.res.status = "Ok" /\ c.res.err = "none" /\ c.res.val # NoVal
           \/ c.res = Malformed
           \/ c.res = ParseFailed
        /\ WellFramed(buf) => c.res # Malformed
        /\ ~WellFramed(buf) => c.res # ParseFailed

\* "?D,-1\0": the u32 conversion fails and the caller sees ResponseParse.
C9_Witness ==
    /\ buf = <<63, 68, 44, 45, 49, 0>>
    /\ \E c \in Calls :
           c.op = "DataLoggerStorageIntervalResponse" /\ c.res = ParseFailed

(***************************************************************************)
(* C10: no call panics; the unwrap of r.get (3..) never meets None.        *)
(***************************************************************************)
C10_NeverPanics ==
    /\ \A c \in Calls : c.res.status \in {"Ok", "Err"}
    /\ (WellFramed(buf) /\ StartsWith(TextOf(buf), <<63, 68, 44>>)) =>
           StrGetFrom(TextOf(buf), 3).some

\* "?D," followed by the two bytes of U+00E9: the slice is taken and the
\* number is refused.
C10_Witness ==
    /\ buf = <<63, 68, 44, 195, 169, 0>>
    /\ \E c \in Calls :
           c.op = "DataLoggerStorageIntervalResponse" /\ c.res = ParseFailed

====
